---- MODULE Spec2Model ----
(***************************************************************************)
(* Prompt-From-Zod (src/src/index.ts): an interactive data-entry session   *)
(* driven by a Zod schema.  promptFromZod walks the schema with            *)
(* schemaWalker, which issues one terminal prompt at a time; arrayPrompt   *)
(* collects array elements until the operator cancels; schemaValidator is  *)
(* the exported compatibility check.                                       *)
(*                                                                         *)
(* The code is asynchronous: it runs synchronously from the resolution of  *)
(* one prompt to the issue of the next one.  Each action below is one such *)
(* stretch: the call of promptFromZod, the resolution of the outstanding   *)
(* prompt with a value, or its rejection with an error.                    *)
(***************************************************************************)
EXTENDS Integers, Sequences, FiniteSets, TLC

VARIABLES
    schema,           \* promptFromZod argument: the root schema (a node id)
    propertyLabel,    \* promptFromZod argument: the label spec
    doConfirm,        \* promptFromZod argument: the confirmation policy
    status,           \* "idle", "waiting" (a prompt is outstanding), "done", "failed"
    stack,            \* suspended schemaWalker / arrayPrompt calls, innermost last
    prompt,           \* the outstanding terminal request
    results,          \* promptFromZod's local: the value of the current walk
    returned,         \* the value promptFromZod resolved to
    thrown,           \* the error promptFromZod rejected with
    walks,            \* number of schemaWalker calls made by promptFromZod
    confirms,         \* number of confirmation prompts issued
    declined,         \* number of confirmation prompts answered "no"
    issued,           \* number of field and element prompts issued
    answered,         \* number of field and element prompts that returned a value
    collected,        \* the values the operator entered during the current walk
    produced,         \* the values the element adapter returned in the current collection
    lastCollect,      \* the sequence the last finished arrayPrompt call returned
    failures,         \* number of non-cancellation failures of element prompts
    lastSignal,       \* how the last prompt ended
    validatorResult,  \* the last schemaValidator call: its arguments and outcome
    lastValidation,   \* the last call of a request's validate callback
    outstanding,      \* number of terminal requests awaiting operator input
    controllers,      \* number of AbortController objects arrayPrompt created
    signalled,        \* the controllers whose signal a request was given, in order
    console,          \* the lines written with console.log, in order
    formatter         \* the last getInputMessage / announce-message evaluation

vars == <<schema, propertyLabel, doConfirm, status, stack, prompt, results,
          returned, thrown, walks, confirms, declined, issued, answered,
          collected, produced, lastCollect, failures, lastSignal, validatorResult,
          lastValidation, outstanding, controllers, signalled, console, formatter>>

---------------------------------------------------------------------------
(* Bounds of the model *)

MaxElems == 2        \* elements the operator enters into one array
MaxRestarts == 1     \* times the operator declines the confirmation
MaxFailures == 1     \* non-cancellation failures of element prompts in a session
MaxCallDepth == 12   \* nested calls the JavaScript engine's stack holds

\* The nesting bound of the compatible types (type N = 0 | ... | 5).
DepthBound == 5

---------------------------------------------------------------------------
(* Schema nodes.  A node is an object on the JavaScript heap; a node id   *)
(* stands for the reference to it, so that a shape can refer to itself.   *)

NoElement == "none"
NoMeta == [t |-> "undefined", chars |-> <<>>]
MetaHint(chars) == [t |-> "string", chars |-> chars]

Node(kind, shape, element, options, min, meta) ==
    [kind |-> kind, shape |-> shape, element |-> element,
     options |-> options, min |-> min, multipleOf |-> 0, meta |-> meta]

Leaf(kind) == Node(kind, <<>>, NoElement, <<>>, 0, NoMeta)
ZArray(element, min) == Node("ZodArray", <<>>, element, <<>>, min, NoMeta)
ZObject(shape) == Node("ZodObject", shape, NoElement, <<>>, 0, NoMeta)

Schema(id) ==
    CASE id = "bool"     -> Leaf("ZodBoolean")
      [] id = "str"      -> Leaf("ZodString")
      [] id = "bio"      -> Node("ZodString", <<>>, NoElement, <<>>, 0,
                                 MetaHint(<<"L", "o", "n", "g", "T", "e", "x", "t">>))
      [] id = "memo"     -> Node("ZodString", <<>>, NoElement, <<>>, 0,
                                 MetaHint(<<"B", "i", "g">>))
      [] id = "email"    -> Node("ZodString", <<>>, NoElement, <<>>, 0,
                                 MetaHint(<<"e", "m", "a", "i", "l">>))
      [] id = "coded"    -> Node("ZodString", <<>>, NoElement, <<>>, 0,
                                 [NoMeta EXCEPT !.t = "number"])
      [] id = "handle"   -> Node("ZodString", <<>>, NoElement, <<>>, 3, NoMeta)
      [] id = "num"      -> Leaf("ZodNumber")
      [] id = "adult"    -> Node("ZodNumber", <<>>, NoElement, <<>>, 18, NoMeta)
      [] id = "even18"   -> [Node("ZodNumber", <<>>, NoElement, <<>>, 18, NoMeta)
                                 EXCEPT !.multipleOf = 2]
      [] id = "color"    -> Node("ZodEnum", <<>>, NoElement, <<"red", "green">>, 0, NoMeta)
      [] id = "any"      -> Leaf("ZodAny")
      [] id = "tags"     -> ZArray("str", 0)
      [] id = "flags"    -> ZArray("bool", 0)
      [] id = "ages"     -> ZArray("adult", 0)
      [] id = "colors"   -> ZArray("color", 0)
      [] id = "nonempty" -> ZArray("str", 1)
      [] id = "matrix"   -> ZArray("tags", 0)
      [] id = "people"   -> ZArray("L1", 0)
      [] id = "anys"     -> ZArray("any", 0)
      [] id = "empty"    -> ZObject(<<>>)
      [] id = "person"   -> ZObject(<< <<"name", "str">>, <<"age", "num">>, <<"tags", "tags">> >>)
      [] id = "contact"  -> ZObject(<< <<"name", "str">>, <<"age", "num">> >>)
      [] id = "post"     -> ZObject(<< <<"title", "str">>, <<"tags", "tags">>,
                                       <<"draft", "bool">> >>)
      [] id = "mixed"    -> ZObject(<< <<"s", "str">>, <<"u", "any">> >>)
      [] id = "team"     -> ZObject(<< <<"lead", "str">>, <<"members", "people">> >>)
      [] id = "L1"       -> ZObject(<< <<"a", "bool">> >>)
      [] id = "L2"       -> ZObject(<< <<"b", "L1">>, <<"on", "bool">> >>)
      [] id = "L3"       -> ZObject(<< <<"c", "L2">> >>)
      [] id = "L4"       -> ZObject(<< <<"d", "L3">> >>)
      [] id = "L5"       -> ZObject(<< <<"e", "L4">> >>)
      [] id = "L6"       -> ZObject(<< <<"f", "L5">> >>)
      [] id = "loop"     -> ZObject(<< <<"v", "str">>, <<"next", "loop">> >>)
      [] id = "knot"     -> ZObject(<< <<"next", "knot">>, <<"u", "any">> >>)

\* The schemas a session is run on (every shape here is a finite tree).
WalkRoots == {"bool", "str", "bio", "memo", "email", "coded", "handle", "num", "adult", "even18", "color", "any",
              "tags", "flags", "ages", "colors", "nonempty", "matrix", "people", "anys",
              "empty", "person", "contact", "post", "mixed", "team",
              "L1", "L2", "L3", "L4", "L5", "L6"}

\* The schemas schemaValidator is called on.
CheckRoots == WalkRoots \cup {"loop", "knot"}

CompatibleZodPrimary == {"ZodBoolean", "ZodString", "ZodNumber", "ZodEnum"}

---------------------------------------------------------------------------
(* JavaScript values *)

Value(t, v) == [t |-> t, v |-> v]
NoValue == [t |-> "undefined"]
ArrayValue(items) == Value("array", items)
ObjectValue(entries) == Value("object", entries)

Error(name, message) == [name |-> name, message |-> message]
NoError == [name |-> "none", message |-> ""]

ObjSetFront(entries, key, value) == <<(<<key, value>>)>> \o entries

\* object[key] = value: an own key keeps its place, a new key goes last.
ObjSet(entries, key, value) ==
    IF \E i \in 1..Len(entries) : entries[i][1] = key
    THEN [i \in 1..Len(entries) |->
            IF entries[i][1] = key THEN <<key, value>> ELSE entries[i]]
    ELSE Append(entries, <<key, value>>)

Keys(entries) == [i \in 1..Len(entries) |-> entries[i][1]]

---------------------------------------------------------------------------
(* Strings that are formatted.  A string is a sequence of pieces: a piece  *)
(* is one separator character (a blank, ":" or ";") or a run of text that *)
(* neither starts nor ends with a separator; trim and the pattern         *)
(* /[:;\s]+$/ only tell separators from text.                             *)

IsSpace(c) == c \in {" ", "\t", "\n"}
IsTrailing(c) == IsSpace(c) \/ c \in {":", ";"}

RECURSIVE trimStart(_), trimEnd(_), replaceTrailing(_), repeat(_, _)
trimStart(str) ==
    IF str # <<>> /\ IsSpace(Head(str)) THEN trimStart(Tail(str)) ELSE str
trimEnd(str) ==
    IF str # <<>> /\ IsSpace(str[Len(str)])
    THEN trimEnd(SubSeq(str, 1, Len(str) - 1)) ELSE str

\* String.prototype.trim
trim(str) == trimEnd(trimStart(str))

\* str.replace(/[:;\s]+$/, '')
replaceTrailing(str) ==
    IF str # <<>> /\ IsTrailing(str[Len(str)])
    THEN replaceTrailing(SubSeq(str, 1, Len(str) - 1)) ELSE str

\* String.prototype.repeat
repeat(str, count) == IF count = 0 THEN <<>> ELSE str \o repeat(str, count - 1)

\* const indent = '   '
indent == <<" ", " ", " ">>

getBrace(braceChar, indentCount) == <<" ", " ">> \o repeat(indent, indentCount) \o braceChar

getIndent(indentCount) == repeat(indent, indentCount)

---------------------------------------------------------------------------
(* Label specs: undefined, a string, an object { value, overwriteDefault?, *)
(* items? }, or any other object (a mapping without value and items).      *)
(* overwriteDefault absent is overwriteDefault false.                      *)

Undefined == [t |-> "undefined"]
StrLabel(s) == [t |-> "string", value |-> s]
NoItems == [defined |-> FALSE, entries |-> <<>>]
Items(entries) == [defined |-> TRUE, entries |-> entries]
ObjLabel(value, overwriteDefault, items) ==
    [t |-> "object", value |-> value, overwriteDefault |-> overwriteDefault, items |-> items]

\* An object with neither value nor items, such as { name: "Your Name" }.
FlatLabel(entries) == [t |-> "mapping", entries |-> entries]

\* JavaScript truthiness of a label: undefined and "" are falsy.
Truthy(label) ==
    label.t \in {"object", "mapping"} \/ (label.t = "string" /\ label.value # <<>>)

\* items[key]
Lookup(entries, key) ==
    LET idx == {i \in 1..Len(entries) : entries[i][1] = key}
    IN  IF idx = {} THEN Undefined ELSE entries[CHOOSE i \in idx : TRUE][2]

\* The text of the label in `${propertyLabel.value}`
ValueText(label) == IF label.t = "object" THEN label.value ELSE <<"undefined">>

getInputMessageInverted(indentCount, defaultMessage, label, mandatoryMessage) ==
    LET default == replaceTrailing(trim(defaultMessage))
        prefix == IF Truthy(mandatoryMessage)
                  THEN replaceTrailing(trim(mandatoryMessage.value)) \o <<" ", "|", " ">>
                  ELSE <<>>
        text == IF label.t = "string" THEN replaceTrailing(label.value)
                ELSE IF Truthy(label)
                THEN IF ~(label.t = "object" /\ label.overwriteDefault)
                     THEN replaceTrailing(trim(ValueText(label)))
                     ELSE ValueText(label) \o <<" ", "(">> \o default \o <<")">>
                ELSE default
    IN  getIndent(indentCount) \o prefix \o text \o <<":", " ">>

getInputMessageIndentLast(indentCount, defaultMessage, label, mandatoryMessage) ==
    LET default == replaceTrailing(trim(defaultMessage))
        prefix == IF Truthy(mandatoryMessage)
                  THEN replaceTrailing(trim(mandatoryMessage.value)) \o <<" ", "|", " ">>
                  ELSE <<>>
        text == IF label.t = "string" THEN replaceTrailing(label.value)
                ELSE IF Truthy(label)
                THEN IF label.t = "object" /\ label.overwriteDefault
                     THEN replaceTrailing(trim(label.value))
                     ELSE ValueText(label) \o <<" ", "(">> \o default \o <<")">>
                ELSE default
    IN  prefix \o getIndent(indentCount) \o text \o <<":", " ">>

\* getInputMessage(indentCount, defaultMessage, propertyLabel?, mandatoryMessage?);
\* an absent mandatoryMessage is Undefined, a given one StrLabel(text).
getInputMessage(indentCount, defaultMessage, label, mandatoryMessage) ==
    LET default == replaceTrailing(trim(defaultMessage))
        prefix == IF Truthy(mandatoryMessage)
                  THEN replaceTrailing(trim(mandatoryMessage.value)) \o <<" ", "|", " ">>
                  ELSE <<>>
        text == IF label.t = "string" THEN replaceTrailing(label.value)
                ELSE IF Truthy(label)
                THEN IF label.t = "object" /\ label.overwriteDefault
                     THEN replaceTrailing(trim(label.value))
                     ELSE ValueText(label) \o <<" ", "(">> \o default \o <<")">>
                ELSE default
    IN  getIndent(indentCount) \o prefix \o text \o <<":", " ">>

\* The message schemaWalker builds for arrayPrompt (the announce line).
ArrayAnnounce(label, indentCount) ==
    getBrace(<<"[", " ">> \o getInputMessage(0, <<"Array of values">>, label,
                                              StrLabel(<<"Press Ctrl+C to Finalize">>)),
             indentCount)

ObjectOpenDeeper(label, indentCount) ==
    getBrace(<<"{", " ">> \o getInputMessage(0, <<"Object">>,
                 IF Truthy(label) /\ label.t = "object" THEN StrLabel(label.value)
                 ELSE Undefined, Undefined),
             indentCount + 1)

\* The line schemaWalker writes when it enters a record.
ObjectOpen(label, indentCount) ==
    getBrace(<<"{", " ">> \o getInputMessage(0, <<"Object">>,
                 IF Truthy(label) /\ label.t = "object" THEN StrLabel(label.value)
                 ELSE Undefined, Undefined),
             indentCount)

---------------------------------------------------------------------------
(* The schema's own validation (safeParse) and the Validator Adapter *)

RECURSIVE Concat(_)
Concat(seqs) == IF seqs = <<>> THEN <<>> ELSE Head(seqs) \o Concat(Tail(seqs))

\* entries[key], undefined when the key is absent
Get(entries, key) ==
    LET idx == {i \in 1..Len(entries) : entries[i][1] = key}
    IN  IF idx = {} THEN NoValue ELSE entries[CHOOSE i \in idx : TRUE][2]

\* schema.safeParse(value).error.issues, as the sequence of issue messages
\* (empty exactly when the parse succeeds).
RECURSIVE Issues(_, _)
Issues(id, value) ==
    LET n == Schema(id) IN
    CASE n.kind = "ZodBoolean" ->
            IF value.t = "boolean" THEN <<>> ELSE <<"expected boolean">>
      [] n.kind = "ZodString" ->
            IF value.t # "string" THEN <<"expected string">>
            ELSE IF Len(value.v) < n.min THEN <<"too small">> ELSE <<>>
      [] n.kind = "ZodNumber" ->
            IF value.t # "number" THEN <<"expected number">>
            ELSE (IF value.v < n.min THEN <<"too small">> ELSE <<>>)
                 \o (IF n.multipleOf # 0 /\ value.v % n.multipleOf # 0
                     THEN <<"not a multiple">> ELSE <<>>)
      [] n.kind = "ZodEnum" ->
            IF value.t = "string" /\ \E i \in 1..Len(n.options) : n.options[i] = value.v
            THEN <<>> ELSE <<"invalid option">>
      [] n.kind = "ZodArray" ->
            IF value.t # "array" THEN <<"expected array">>
            ELSE (IF Len(value.v) < n.min THEN <<"too small">> ELSE <<>>)
                 \o Concat([i \in 1..Len(value.v) |-> Issues(n.element, value.v[i])])
      [] n.kind = "ZodObject" ->
            IF value.t # "object" THEN <<"expected object">>
            ELSE Concat([i \in 1..Len(n.shape) |->
                           Issues(n.shape[i][2], Get(value.v, n.shape[i][1]))])
      [] OTHER -> <<>>

safeParse(id, value) == [success |-> Issues(id, value) = <<>>, issues |-> Issues(id, value)]

RECURSIVE JoinComma(_)
JoinComma(messages) ==
    IF messages = <<>> THEN ""
    ELSE IF Len(messages) = 1 THEN messages[1]
    ELSE messages[1] \o ", " \o JoinComma(Tail(messages))

\* issues.map(err => err.message).join(',\n')
RECURSIVE Join(_)
Join(messages) ==
    IF messages = <<>> THEN ""
    ELSE IF Len(messages) = 1 THEN messages[1]
    ELSE messages[1] \o ",\n" \o Join(Tail(messages))

\* The function zodParseToValidate(schema) returns, applied to value.
zodParseToValidate(id, value) ==
    LET parsedValue == safeParse(id, value)
    IN  IF parsedValue.success THEN Value("boolean", TRUE)
        ELSE Value("string", Join(parsedValue.issues))

---------------------------------------------------------------------------
(* The terminal requests (confirm, input, editor, number, select) *)

NoPrompt == [fn |-> "none"]

\* abortController?.signal of a prompt called without a controller
NoController == 0

\* The default description schemaWalker gives a primitive node.
DefaultMessage(id) ==
    CASE Schema(id).kind = "ZodBoolean" -> <<"Boolean">>
      [] Schema(id).kind = "ZodString"  -> <<"String">>
      [] Schema(id).kind = "ZodNumber"  -> <<"Number">>
      [] Schema(id).kind = "ZodEnum"    -> <<"Enum">>

ChoicesReversed(id) ==
    LET options == Schema(id).options
    IN  [i \in 1..Len(options) |->
            [name |-> options[Len(options) + 1 - i], value |-> options[Len(options) + 1 - i]]]

\* schema.options.map(option => ({ name: option, value: option }))
Choices(id) ==
    LET options == Schema(id).options
    IN  [i \in 1..Len(options) |-> [name |-> options[i], value |-> options[i]]]

\* The message of a request: schemaWalker formats the one of a field,
\* arrayPrompt passes the indentation alone, promptFromZod a fixed question.
RequestMessage(site, id, indentCount, label) ==
    CASE site = "field" -> getInputMessage(indentCount, DefaultMessage(id), label, Undefined)
      [] site = "element" -> getIndent(indentCount)
      [] OTHER -> <<"Are you sure you want to submit the data? (no to restart)">>

\* A request: the primitive, the schema node whose validator it carries, the
\* context it was issued from ("field", "element" or "confirmation"), the
\* indentation and label its message is built from, and whether a
\* cancellation signal was passed.
Request(fn, id, site, indentCount, label, required, validate, signal) ==
    [fn |-> fn, schema |-> id, site |-> site, indentCount |-> indentCount,
     propertyLabel |-> label, required |-> required, validate |-> validate,
     signal |-> signal, message |-> RequestMessage(site, id, indentCount, label),
     choices |-> IF fn = "select" THEN Choices(id) ELSE <<>>]

Lower(c) ==
    CASE c = "L" -> "l" [] c = "T" -> "t" [] c = "B" -> "b" [] c = "M" -> "m"
      [] c = "R" -> "r" [] OTHER -> c

\* String.prototype.toLowerCase on a sequence of characters
toLowerCase(chars) == [i \in 1..Len(chars) |-> Lower(chars[i])]

LongFormHints ==
    { <<"l","o","n","g","t","e","x","t">>, <<"t","e","x","t","a","r","e","a">>,
      <<"m","a","r","k","d","o","w","n">>, <<"r","i","c","h","t","e","x","t">>,
      <<"l","o","n","g">>, <<"b","i","g">>, <<"b","i","g","t","e","x","t">> }

\* What the operator may type at the terminal.
StringInputs == {"", "Ada", "Bo"}
NumberInputs == {7, 36}

\* Everything a request can return.
Inputs ==
    {Value("boolean", b) : b \in BOOLEAN}
    \cup {Value("string", x) : x \in StringInputs \cup {"red", "green"}}
    \cup {Value("number", x) : x \in NumberInputs}

\* The values a request can resolve to: the primitive re-prompts until its
\* validator returns true (and, when required, until the input is not empty).
Resolutions(p) ==
    CASE p.fn = "confirm" -> {Value("boolean", b) : b \in BOOLEAN}
      [] p.fn \in {"input", "editor"} ->
            {Value("string", s) : s \in
                {x \in StringInputs :
                    /\ p.required => x # ""
                    /\ p.validate => zodParseToValidate(p.schema, Value("string", x)).t = "boolean"}}
      [] p.fn = "number" ->
            {Value("number", k) : k \in
                {x \in NumberInputs :
                    p.validate => zodParseToValidate(p.schema, Value("number", x)).t = "boolean"}}
      [] p.fn = "select" ->
            {Value("string", p.choices[i].value) : i \in 1..Len(p.choices)}
      [] OTHER -> {}

\* The errors a request can reject with.
AbortError == Error("AbortError", "This operation was aborted")
ExitPromptError == Error("ExitPromptError", "User force closed the prompt")
AbortMessage == Error("Error", "AbortError")
IOFailure == Error("Error", "EIO: i/o error, read")
Rejections == {AbortError, ExitPromptError, AbortMessage, IOFailure}

\* The condition of arrayPrompt's catch clause.
IsCancellation(error) ==
    error.name = "AbortError" \/ error.message = "AbortError" \/ error.name = "ExitPromptError"

---------------------------------------------------------------------------
(* The engine.  An operator below takes the session state s (a record of  *)
(* the variables) and returns the state at the next suspension: a prompt  *)
(* outstanding, the session resolved, or the session rejected.            *)

Cur == [propertyLabel |-> propertyLabel, status |-> status, stack |-> stack, prompt |-> prompt, results |-> results,
        returned |-> returned, thrown |-> thrown, walks |-> walks,
        confirms |-> confirms, declined |-> declined, issued |-> issued,
        answered |-> answered, collected |-> collected, produced |-> produced,
        lastCollect |-> lastCollect, failures |-> failures, lastSignal |-> lastSignal,
        lastValidation |-> lastValidation, outstanding |-> outstanding,
        controllers |-> controllers, signalled |-> signalled, console |-> console]

\* console.log(line)
Log(s, line) == [s EXCEPT !.console = Append(@, line)]

\* chalk.red('=============================')
Banner == <<"=============================">>

Top(s) == s.stack[Len(s.stack)]
Pop(s) == [s EXCEPT !.stack = SubSeq(@, 1, Len(@) - 1)]
Push(s, frame) == [s EXCEPT !.stack = Append(@, frame)]
SetTop(s, frame) == [s EXCEPT !.stack[Len(s.stack)] = frame]

\* A suspended call: schemaWalker in its ZodObject branch (i is the position
\* of the for loop, acc the object built so far) or arrayPrompt under
\* schemaWalker's ZodArray branch (acc is results).
Frame(fn, id, label, indentCount) ==
    [fn |-> fn, schema |-> id, propertyLabel |-> label, indentCount |-> indentCount,
     i |-> 1, acc |-> <<>>]

\* An exception nothing catches: it unwinds every suspended call and rejects
\* the promise promptFromZod returned.
Throw(s, error) ==
    [s EXCEPT !.status = "failed", !.stack = <<>>, !.prompt = NoPrompt, !.thrown = error]

\* await of a terminal request
Issue(s, request) ==
    [s EXCEPT !.status = "waiting", !.prompt = request,
              !.outstanding = @ + 1,
              !.signalled = IF request.signal = NoController THEN @
                            ELSE Append(@, request.signal),
              !.issued = IF request.site = "confirmation" THEN @ ELSE @ + 1,
              !.confirms = IF request.site = "confirmation" THEN @ + 1 ELSE @]

booleanPrompt(s, id, site, indentCount, label, signal) ==
    Issue(s, Request("confirm", id, site, indentCount, label, FALSE, FALSE, signal))

stringPromptCaseSensitive(s, id, site, indentCount, label, signal) ==
    LET meta == Schema(id).meta
        metaType == IF meta.t = "string" THEN meta.chars ELSE <<>>
    IN  IF meta.t = "string" /\ metaType # <<>> /\ metaType \in LongFormHints
        THEN Issue(s, Request("editor", id, site, indentCount, label, FALSE, TRUE, signal))
        ELSE Issue(s, Request("input", id, site, indentCount, label, TRUE, TRUE, signal))

stringPrompt(s, id, site, indentCount, label, signal) ==
    LET meta == Schema(id).meta
        metaType == IF meta.t = "string" THEN toLowerCase(meta.chars) ELSE <<>>
    IN  IF meta.t = "string" /\ metaType # <<>> /\ metaType \in LongFormHints
        THEN Issue(s, Request("editor", id, site, indentCount, label, FALSE, TRUE, signal))
        ELSE Issue(s, Request("input", id, site, indentCount, label, TRUE, TRUE, signal))

numberPromptUnvalidated(s, id, site, indentCount, label, signal) ==
    Issue(s, Request("number", id, site, indentCount, label, TRUE, FALSE, signal))

numberPrompt(s, id, site, indentCount, label, signal) ==
    Issue(s, Request("number", id, site, indentCount, label, TRUE, TRUE, signal))

enumPrompt(s, id, site, indentCount, label, signal) ==
    Issue(s, Request("select", id, site, indentCount, label, FALSE, FALSE, signal))

\* The adapter for a primitive node kind.
PrimaryPrompt(s, id, site, indentCount, label, signal) ==
    LET kind == Schema(id).kind IN
    CASE kind = "ZodBoolean" -> booleanPrompt(s, id, site, indentCount, label, signal)
      [] kind = "ZodString"  -> stringPrompt(s, id, site, indentCount, label, signal)
      [] kind = "ZodNumber"  -> numberPrompt(s, id, site, indentCount, label, signal)
      [] kind = "ZodEnum"    -> enumPrompt(s, id, site, indentCount, label, signal)

ElementPromptEager(s) ==
    LET f == Top(s)
        first == PrimaryPrompt([s EXCEPT !.controllers = @ + 1], Schema(f.schema).element,
                               "element", f.indentCount + 1, Undefined, s.controllers + 1)
    IN  PrimaryPrompt([first EXCEPT !.controllers = @ + 1], Schema(f.schema).element,
                      "element", f.indentCount + 1, Undefined, first.controllers + 1)

ElementPromptSameController(s) ==
    LET f == Top(s)
        controller == IF f.acc = <<>> THEN s.controllers + 1 ELSE s.controllers
    IN  PrimaryPrompt([s EXCEPT !.controllers = controller], Schema(f.schema).element,
                      "element", f.indentCount + 1, Undefined, controller)

\* One iteration of arrayPrompt's while loop up to its await: a new
\* AbortController, then the element prompt with an indentation-only message.
ElementPrompt(s) ==
    LET f == Top(s)
        controller == s.controllers + 1
    IN  PrimaryPrompt([s EXCEPT !.controllers = controller], Schema(f.schema).element,
                      "element", f.indentCount + 1, Undefined, controller)

arrayPromptAnnounceFirst(s, id, label, indentCount) ==
    LET announced == Log([s EXCEPT !.produced = <<>>, !.lastCollect = NoValue],
                         ArrayAnnounce(label, indentCount))
    IN  IF Schema(Schema(id).element).kind \notin CompatibleZodPrimary
        THEN Throw(announced, Error("Error", "Unsupported array element type."))
        ELSE ElementPrompt(Push(announced, Frame("ZodArray", id, label, indentCount)))

\* arrayPrompt up to its first await; the caller's indentCount is kept in the
\* frame, the elements are prompted at indentCount + 1.
arrayPrompt(s, id, label, indentCount) ==
    IF Schema(Schema(id).element).kind \notin CompatibleZodPrimary
    THEN Throw(s, Error("Error", "Unsupported array element type."))
    ELSE ElementPrompt(Push(Log([s EXCEPT !.produced = <<>>, !.lastCollect = NoValue],
                                ArrayAnnounce(label, indentCount)),
                            Frame("ZodArray", id, label, indentCount)))

\* The label schemaWalker passes for the field key of a record.
GeneratedLabel(child, key) ==
    ObjLabel(<<key>>, FALSE,
             IF Schema(child).kind = "ZodObject"
             THEN Items([i \in 1..Len(Schema(child).shape) |->
                            <<Schema(child).shape[i][1],
                              ObjLabel(<<Schema(child).shape[i][1]>>, FALSE, NoItems)>>])
             ELSE NoItems)

TypeError == Error("TypeError", "Cannot read properties of undefined")

\* propertyLabel ? propertyLabel.items[key] : { value: key, ... }
ChildLabel(label, child, key) ==
    IF Truthy(label)
    THEN IF label.t = "object" /\ label.items.defined
         THEN [ok |-> TRUE, label |-> Lookup(label.items.entries, key), error |-> NoError]
         ELSE [ok |-> FALSE, label |-> Undefined, error |-> TypeError]
    ELSE [ok |-> TRUE, label |-> GeneratedLabel(child, key), error |-> NoError]

\* results.push(result)
ArrayPushFront(acc, value) == <<value>> \o acc
ArrayPush(acc, value) == Append(acc, value)

\* The end of promptFromZod: the promise resolves to value.
Resolve(s, value) ==
    [s EXCEPT !.status = "done", !.stack = <<>>, !.prompt = NoPrompt, !.returned = value]

AfterWalkAlwaysConfirm(s, value) ==
    Issue(Log([s EXCEPT !.results = value], Banner),
          Request("confirm", NoElement, "confirmation", 0, Undefined, FALSE, FALSE,
                  NoController))

\* promptFromZod after its await of schemaWalker, up to the confirmation.
AfterWalk(s, value) ==
    LET s1 == Log([s EXCEPT !.results = value], Banner)
    IN  IF doConfirm
        THEN Issue(s1, Request("confirm", NoElement, "confirmation", 0, Undefined,
                               FALSE, FALSE, NoController))
        ELSE Resolve(s1, s1.results)

RECURSIVE schemaWalker(_, _, _, _), ObjectLoop(_), Return(_, _)

schemaWalkerSkip(s, id, label, indentCount) ==
    LET kind == Schema(id).kind IN
    CASE kind \in CompatibleZodPrimary ->
            PrimaryPrompt(s, id, "field", indentCount, label, NoController)
      [] kind = "ZodObject" ->
            ObjectLoop(Push(Log(s, ObjectOpen(label, indentCount)),
                            Frame("ZodObject", id, label, indentCount)))
      [] kind = "ZodArray" ->
            arrayPrompt(s, id, label, indentCount)
      [] OTHER ->
            Return(s, NoValue)

\* schemaWalker from its call to its first suspension.
schemaWalker(s, id, label, indentCount) ==
    LET kind == Schema(id).kind IN
    CASE kind \in CompatibleZodPrimary ->
            PrimaryPrompt(s, id, "field", indentCount, label, NoController)
      [] kind = "ZodObject" ->
            ObjectLoop(Push(Log(s, ObjectOpen(label, indentCount)),
                            Frame("ZodObject", id, label, indentCount)))
      [] kind = "ZodArray" ->
            arrayPrompt(s, id, label, indentCount)
      [] OTHER ->
            Throw(s, Error("Error", "Unsupported schema type."))

ObjectLoopFilling(s) ==
    LET f == Top(s)
        shape == Schema(f.schema).shape
    IN  IF f.i > Len(shape)
        THEN Return(Pop(Log(s, getBrace(<<"}">>, f.indentCount))), ObjectValue(f.acc))
        ELSE LET key == shape[f.i][1]
                 child == shape[f.i][2]
                 lab == ChildLabel(f.propertyLabel, child, key)
                 filled == [f.propertyLabel EXCEPT
                               !.items = Items(ObjSet(f.propertyLabel.items.entries, key,
                                                      GeneratedLabel(child, key)))]
             IN  IF lab.ok
                 THEN IF Len(s.stack) = 1 /\ Truthy(f.propertyLabel) /\ lab.label = Undefined
                      THEN schemaWalker(SetTop([s EXCEPT !.propertyLabel = filled],
                                               [f EXCEPT !.propertyLabel = filled]),
                                        child, GeneratedLabel(child, key), f.indentCount + 1)
                      ELSE schemaWalker(s, child, lab.label, f.indentCount + 1)
                 ELSE Throw(s, lab.error)

ObjectLoopFlat(s) ==
    LET f == Top(s)
        shape == Schema(f.schema).shape
    IN  IF f.i > Len(shape)
        THEN Return(Pop(Log(s, getBrace(<<"}">>, f.indentCount))), ObjectValue(f.acc))
        ELSE LET key == shape[f.i][1]
                 child == shape[f.i][2]
                 lab == ChildLabel(f.propertyLabel, child, key)
             IN  IF lab.ok
                 THEN schemaWalker(s, child, lab.label, f.indentCount)
                 ELSE Throw(s, lab.error)

\* The for loop over schema.shape of the innermost suspended schemaWalker.
ObjectLoop(s) ==
    LET f == Top(s)
        shape == Schema(f.schema).shape
    IN  IF f.i > Len(shape)
        THEN Return(Pop(Log(s, getBrace(<<"}">>, f.indentCount))), ObjectValue(f.acc))
        ELSE LET key == shape[f.i][1]
                 child == shape[f.i][2]
                 lab == ChildLabel(f.propertyLabel, child, key)
             IN  IF lab.ok
                 THEN schemaWalker(s, child, lab.label, f.indentCount + 1)
                 ELSE Throw(s, lab.error)

\* A call returns value to the call that awaits it.
Return(s, value) ==
    IF s.stack = <<>>
    THEN AfterWalk(s, value)
    ELSE LET f == Top(s) IN
         IF f.fn = "ZodObject"
         THEN ObjectLoop(SetTop(s, [f EXCEPT
                  !.acc = ObjSet(@, Schema(f.schema).shape[f.i][1], value),
                  !.i = @ + 1]))
         ELSE ElementPrompt(SetTop(s, [f EXCEPT !.acc = ArrayPush(@, value)]))

\* promptFromZod from its call to its first suspension.
promptFromZod(s) ==
    schemaWalker(Log([s EXCEPT !.walks = @ + 1, !.collected = <<>>, !.results = NoValue],
                     Banner),
                 schema, s.propertyLabel, 0)

AfterConfirmNoRestart(s, answer) == Resolve(s, s.results)

\* promptFromZod after the confirmation was answered.
AfterConfirm(s, answer) ==
    LET restart == ~answer
    IN  IF restart
        THEN promptFromZod(s)
        ELSE Resolve(s, s.results)

\* The request's primitive calls its validate callback on the input.
Validation(request, value, last) ==
    IF request.validate
    THEN [schema |-> request.schema, value |-> value,
          outcome |-> zodParseToValidate(request.schema, value)]
    ELSE last

\* The outstanding request returned value.
Resolved(s, value) ==
    LET site == s.prompt.site
        s1 == [s EXCEPT !.prompt = NoPrompt,
                        !.outstanding = @ - 1,
                        !.lastValidation = Validation(s.prompt, value, @),
                        !.lastSignal = [site |-> site, how |-> "value", error |-> NoError,
                                        value |-> value]]
    IN  IF site = "confirmation"
        THEN AfterConfirm([s1 EXCEPT !.declined = IF value.v THEN @ ELSE @ + 1], value.v)
        ELSE Return([s1 EXCEPT !.answered = @ + 1,
                               !.collected = Append(@, value),
                               !.produced = IF site = "element" THEN Append(@, value) ELSE @],
                    value)

RejectedUncaught(s, error) ==
    Throw([s EXCEPT !.prompt = NoPrompt,
                    !.outstanding = @ - 1,
                    !.lastSignal = [site |-> s.prompt.site, how |-> "error", error |-> error,
                                    value |-> NoValue]],
          error)

RejectedCancelAnywhere(s, error) ==
    LET site == s.prompt.site
        s1 == [s EXCEPT !.prompt = NoPrompt,
                        !.outstanding = @ - 1,
                        !.lastSignal = [site |-> site, how |-> "error", error |-> error,
                                        value |-> NoValue]]
    IN  IF site = "element"
        THEN IF IsCancellation(error)
             THEN Return(Pop(Log([s1 EXCEPT !.lastCollect = ArrayValue(Top(s1).acc)],
                                 getBrace(<<"]">>, Top(s1).indentCount))),
                         ArrayValue(Top(s1).acc))
             ELSE ElementPrompt([s1 EXCEPT !.failures = @ + 1])
        ELSE IF IsCancellation(error) /\ site = "field"
             THEN Return(s1, NoValue)
             ELSE Throw(s1, error)

\* The outstanding request failed with error.
Rejected(s, error) ==
    LET site == s.prompt.site
        s1 == [s EXCEPT !.prompt = NoPrompt,
                        !.outstanding = @ - 1,
                        !.lastSignal = [site |-> site, how |-> "error", error |-> error,
                                        value |-> NoValue]]
    IN  IF site = "element"
        THEN IF IsCancellation(error)
             THEN \* break; return results; then schemaWalker returns arr
                  Return(Pop(Log([s1 EXCEPT !.lastCollect = ArrayValue(Top(s1).acc)],
                                 getBrace(<<"]">>, Top(s1).indentCount))),
                         ArrayValue(Top(s1).acc))
             ELSE \* the catch clause ends, the loop goes on
                  ElementPrompt([s1 EXCEPT !.failures = @ + 1])
        ELSE Throw(s1, error)

---------------------------------------------------------------------------
(* schemaValidator *)

NoResult == [t |-> "none"]
RangeError == [t |-> "throw", v |-> "RangeError: Maximum call stack size exceeded"]

\* JavaScript truthiness of what schemaValidator returns (false, true or a schema).
TruthyResult(r) == r.t = "schema" \/ (r.t = "boolean" /\ r.v)

RECURSIVE schemaValidatorAt(_, _, _), ShapeLoop(_, _, _)

\* for (const key in shape) if (!schemaValidator(shape[key], true)) return false
ShapeLoop(shape, i, depth) ==
    IF i > Len(shape) THEN Value("boolean", TRUE)
    ELSE LET r == schemaValidatorAt(shape[i][2], TRUE, depth + 1)
         IN  IF r.t = "throw" THEN r
             ELSE IF ~TruthyResult(r) THEN Value("boolean", FALSE)
             ELSE ShapeLoop(shape, i + 1, depth)

\* schemaValidator(schema, boolReturn) called with depth frames on the stack.
schemaValidatorAt(id, boolReturn, depth) ==
    LET n == Schema(id) IN
    IF depth > MaxCallDepth THEN RangeError
    ELSE IF n.kind \in CompatibleZodPrimary
    THEN IF boolReturn THEN Value("boolean", TRUE) ELSE Value("schema", id)
    ELSE IF n.kind = "ZodArray"
    THEN LET r == schemaValidatorAt(n.element, FALSE, depth + 1)
         IN  IF r.t = "throw" THEN r
             ELSE IF TruthyResult(r)
             THEN IF boolReturn THEN Value("boolean", TRUE) ELSE Value("schema", id)
             ELSE Value("boolean", FALSE)
    ELSE IF n.kind = "ZodObject"
    THEN LET r == ShapeLoop(n.shape, 1, depth)
         IN  IF r.t = "throw" THEN r
             ELSE IF ~TruthyResult(r) THEN Value("boolean", FALSE)
             ELSE IF boolReturn THEN Value("boolean", TRUE) ELSE Value("schema", id)
    ELSE Value("boolean", FALSE)

schemaValidator(id, boolReturn) == schemaValidatorAt(id, boolReturn, 1)

---------------------------------------------------------------------------
(* The label specs a caller passes: none, or one that mirrors the schema  *)
(* (InputLabel<S>): a string for a primitive or array node, an object     *)
(* { value, items } with an entry for every field for a record node.      *)

RECURSIVE MirrorLabel(_, _)
MirrorLabel(id, text) ==
    IF Schema(id).kind = "ZodObject"
    THEN ObjLabel(<<text>>, FALSE,
                  Items([i \in 1..Len(Schema(id).shape) |->
                            <<Schema(id).shape[i][1],
                              MirrorLabel(Schema(id).shape[i][2], Schema(id).shape[i][1])>>]))
    ELSE StrLabel(<<text>>)

\* Label specs the types do not rule out at run time: a record label whose
\* items lack a field, one without items, and the flat mapping of
\* promptFromZod's documented example.
NamedFields == << <<"name", StrLabel(<<"Full name">>)>>, <<"age", StrLabel(<<"Age in years">>)>> >>

PartialLabel == ObjLabel(<<"Entry">>, FALSE, Items(NamedFields))

BareLabel == ObjLabel(<<"Entry">>, FALSE, NoItems)

DocLabel == FlatLabel(<< <<"name", StrLabel(<<"Your Name">>)>>, <<"age", StrLabel(<<"Your Age">>)>> >>)

LabelSpecs(id) ==
    IF id \in WalkRoots
    THEN {Undefined, MirrorLabel(id, "Entry")}
         \cup (IF id = "person" THEN {PartialLabel, BareLabel, FlatLabel(NamedFields)} ELSE {})
         \cup (IF id = "contact" THEN {DocLabel} ELSE {})
    ELSE {Undefined}

---------------------------------------------------------------------------
(* The state machine *)

Assign(s) ==
    /\ propertyLabel' = s.propertyLabel
    /\ status' = s.status
    /\ stack' = s.stack
    /\ prompt' = s.prompt
    /\ results' = s.results
    /\ returned' = s.returned
    /\ thrown' = s.thrown
    /\ walks' = s.walks
    /\ confirms' = s.confirms
    /\ declined' = s.declined
    /\ issued' = s.issued
    /\ answered' = s.answered
    /\ collected' = s.collected
    /\ produced' = s.produced
    /\ lastCollect' = s.lastCollect
    /\ failures' = s.failures
    /\ lastSignal' = s.lastSignal
    /\ lastValidation' = s.lastValidation
    /\ outstanding' = s.outstanding
    /\ controllers' = s.controllers
    /\ signalled' = s.signalled
    /\ console' = s.console

NoValidation == [schema |-> NoElement, value |-> NoValue, outcome |-> NoValue]
NoFormat == [op |-> "none"]
NoSignal == [site |-> "none", how |-> "none", error |-> NoError, value |-> NoValue]

Init ==
    /\ schema \in CheckRoots
    /\ propertyLabel \in LabelSpecs(schema)
    /\ doConfirm \in BOOLEAN
    /\ status = "idle"
    /\ stack = <<>>
    /\ prompt = NoPrompt
    /\ results = NoValue
    /\ returned = NoValue
    /\ thrown = NoError
    /\ walks = 0
    /\ confirms = 0
    /\ declined = 0
    /\ issued = 0
    /\ answered = 0
    /\ collected = <<>>
    /\ produced = <<>>
    /\ lastCollect = NoValue
    /\ failures = 0
    /\ lastSignal = NoSignal
    /\ validatorResult = NoResult
    /\ lastValidation = NoValidation
    /\ outstanding = 0
    /\ controllers = 0
    /\ signalled = <<>>
    /\ console = <<>>
    /\ formatter = NoFormat

\* The caller checks the schema: schemaValidator(schema, boolReturn).
CheckSchema(boolReturn) ==
    /\ status = "idle"
    /\ validatorResult = NoResult
    /\ validatorResult' = [t |-> "call", boolReturn |-> boolReturn,
                           result |-> schemaValidator(schema, boolReturn)]
    /\ UNCHANGED <<schema, propertyLabel, doConfirm, status, stack, prompt, results,
                   returned, thrown, walks, confirms, declined, issued, answered,
                   collected, produced, lastCollect, failures, lastSignal,
                   lastValidation, outstanding, controllers, signalled, console, formatter>>

\* The caller calls promptFromZod(schema, propertyLabel, doConfirm).
Call ==
    /\ status = "idle"
    /\ schema \in WalkRoots
    /\ Assign(promptFromZod(Cur))
    /\ UNCHANGED <<schema, doConfirm, validatorResult, formatter>>

\* The operator answers the outstanding field or element prompt.
Answer(value) ==
    /\ status = "waiting"
    /\ prompt.site \in {"field", "element"}
    /\ value \in Resolutions(prompt)
    /\ prompt.site = "element" => Len(Top(Cur).acc) < MaxElems
    /\ Assign(Resolved(Cur, value))
    /\ UNCHANGED <<schema, doConfirm, validatorResult, formatter>>

\* The operator enters an input the request's validator rejects: the
\* primitive shows the error text and keeps waiting.
Retype(value) ==
    /\ status = "waiting"
    /\ prompt.validate
    /\ value.t = (IF prompt.fn = "number" THEN "number" ELSE "string")
    /\ (prompt.fn = "input" /\ prompt.required) => value.v # ""
    /\ zodParseToValidate(prompt.schema, value).t = "string"
    /\ lastValidation' = Validation(prompt, value, lastValidation)
    /\ UNCHANGED <<schema, propertyLabel, doConfirm, status, stack, prompt, results,
                   returned, thrown, walks, confirms, declined, issued, answered,
                   collected, produced, lastCollect, failures, lastSignal,
                   validatorResult, outstanding, controllers, signalled, console,
                   formatter>>

\* The operator answers the confirmation prompt.
Confirm(value) ==
    /\ status = "waiting"
    /\ prompt.site = "confirmation"
    /\ value \in Resolutions(prompt)
    /\ ~value.v => declined < MaxRestarts
    /\ Assign(Resolved(Cur, value))
    /\ UNCHANGED <<schema, doConfirm, validatorResult, formatter>>

\* The outstanding prompt fails: the operator presses Ctrl+C, or the
\* terminal breaks.
Reject(error) ==
    /\ status = "waiting"
    /\ error \in Rejections
    /\ (prompt.site = "element" /\ ~IsCancellation(error)) => failures < MaxFailures
    /\ Assign(Rejected(Cur, error))
    /\ UNCHANGED <<schema, doConfirm, validatorResult, formatter>>

---------------------------------------------------------------------------
(* The message formatter on its own: getInputMessage applied to arguments *)
(* drawn from the sets below, and the announce line of an array.          *)

MaxIndent == 2

FormatDefaults == { <<"String">>, <<"Enum", ":", " ">>, <<" ", "Array of values", ";">> }

FormatLabels ==
    { Undefined, StrLabel(<<>>), StrLabel(<<"Name">>), StrLabel(<<"Name", ":", " ">>),
      StrLabel(<<" ", "Name", ";">>),
      ObjLabel(<<"Age">>, TRUE, NoItems), ObjLabel(<<" ", "Age", ":", " ">>, TRUE, NoItems),
      ObjLabel(<<"Age">>, FALSE, NoItems), ObjLabel(<<"Age", ":">>, FALSE, NoItems) }

FormatPrefixes ==
    { Undefined, StrLabel(<<>>), StrLabel(<<"Press Ctrl+C to Finalize">>),
      StrLabel(<<" ", "Hint", ":", " ">>) }

FormatInit ==
    /\ schema = "bool"
    /\ propertyLabel = Undefined
    /\ doConfirm = FALSE
    /\ status = "idle"
    /\ stack = <<>>
    /\ prompt = NoPrompt
    /\ results = NoValue
    /\ returned = NoValue
    /\ thrown = NoError
    /\ walks = 0
    /\ confirms = 0
    /\ declined = 0
    /\ issued = 0
    /\ answered = 0
    /\ collected = <<>>
    /\ produced = <<>>
    /\ lastCollect = NoValue
    /\ failures = 0
    /\ lastSignal = NoSignal
    /\ validatorResult = NoResult
    /\ lastValidation = NoValidation
    /\ outstanding = 0
    /\ controllers = 0
    /\ signalled = <<>>
    /\ console = <<>>
    /\ formatter \in [op : {"arguments"}, indentCount : 0..MaxIndent,
                      defaultMessage : FormatDefaults, propertyLabel : FormatLabels,
                      mandatoryMessage : FormatPrefixes, message : {<<>>}]

session == <<schema, propertyLabel, doConfirm, status, stack, prompt, results,
             returned, thrown, walks, confirms, declined, issued, answered,
             collected, produced, lastCollect, failures, lastSignal, validatorResult,
             lastValidation, outstanding, controllers, signalled, console>>

\* getInputMessage(indentCount, defaultMessage, propertyLabel, mandatoryMessage)
Format ==
    /\ formatter.op = "arguments"
    /\ formatter' = [formatter EXCEPT
            !.op = "getInputMessage",
            !.message = getInputMessage(formatter.indentCount, formatter.defaultMessage,
                                        formatter.propertyLabel, formatter.mandatoryMessage)]
    /\ UNCHANGED session

\* schemaWalker's ZodArray branch builds the announce line for propertyLabel.
Announce ==
    /\ formatter.op = "arguments"
    /\ formatter' = [formatter EXCEPT
            !.op = "announce",
            !.defaultMessage = <<"Array of values">>,
            !.mandatoryMessage = StrLabel(<<"Press Ctrl+C to Finalize">>),
            !.message = ArrayAnnounce(formatter.propertyLabel, formatter.indentCount)]
    /\ UNCHANGED session

FormatNext == Format \/ Announce

FormatSpec == FormatInit /\ [][FormatNext]_vars

---------------------------------------------------------------------------

Next ==
    \/ \E b \in BOOLEAN : CheckSchema(b)
    \/ Call
    \/ \E v \in Inputs : Answer(v)
    \/ \E v \in Inputs : Retype(v)
    \/ \E v \in {Value("boolean", b) : b \in BOOLEAN} : Confirm(v)
    \/ \E e \in Rejections : Reject(e)

Spec == Init /\ [][Next]_vars

---------------------------------------------------------------------------
(* The rules of the specification the properties are stated with *)

\* isCompatible(node, depthBudget): a primitive or enum node is compatible,
\* an Array node iff its element is a primitive or enum, a Record node iff
\* depthBudget > 0 and every field is compatible with depthBudget - 1.
RECURSIVE IsCompatible(_, _)
IsCompatible(id, depthBudget) ==
    LET n == Schema(id) IN
    CASE n.kind \in CompatibleZodPrimary -> TRUE
      [] n.kind = "ZodArray" -> Schema(n.element).kind \in CompatibleZodPrimary
      [] n.kind = "ZodObject" ->
            /\ depthBudget > 0
            /\ \A i \in 1..Len(n.shape) : IsCompatible(n.shape[i][2], depthBudget - 1)
      [] OTHER -> FALSE

\* Every Array node of a finite schema has a primitive or enum element.
RECURSIVE ArraysOfPrimary(_)
ArraysOfPrimary(id) ==
    LET n == Schema(id) IN
    CASE n.kind = "ZodArray" -> Schema(n.element).kind \in CompatibleZodPrimary
      [] n.kind = "ZodObject" -> \A i \in 1..Len(n.shape) : ArraysOfPrimary(n.shape[i][2])
      [] OTHER -> TRUE

\* The shape of a collected value: a primitive for a primitive or enum node,
\* a sequence for an Array node, a mapping with exactly the record's field
\* names for a Record node.
RECURSIVE ShapeMatches(_, _)
ShapeMatches(id, value) ==
    LET n == Schema(id) IN
    CASE n.kind = "ZodBoolean" -> value.t = "boolean"
      [] n.kind \in {"ZodString", "ZodEnum"} -> value.t = "string"
      [] n.kind = "ZodNumber" -> value.t = "number"
      [] n.kind = "ZodArray" ->
            /\ value.t = "array"
            /\ \A i \in 1..Len(value.v) : ShapeMatches(n.element, value.v[i])
      [] n.kind = "ZodObject" ->
            /\ value.t = "object"
            /\ Keys(value.v) = Keys(n.shape)
            /\ \A i \in 1..Len(n.shape) : ShapeMatches(n.shape[i][2], value.v[i][2])
      [] OTHER -> FALSE

\* The primitive values of a collected value, in order.
RECURSIVE Flatten(_)
Flatten(value) ==
    CASE value.t = "array" -> Concat([i \in 1..Len(value.v) |-> Flatten(value.v[i])])
      [] value.t = "object" -> Concat([i \in 1..Len(value.v) |-> Flatten(value.v[i][2])])
      [] OTHER -> <<value>>

\* The session failed because a prompt outside an array collection failed.
PromptFailure ==
    /\ lastSignal.how = "error"
    /\ lastSignal.site \in {"field", "confirmation"}
    /\ thrown = lastSignal.error

Checked == validatorResult.t = "call"

---------------------------------------------------------------------------
(* Properties *)

\* C1: on a compatible schema (record depth <= 5), with any label spec of
\* the declared type or none, a walk whose prompts are all answered never
\* fails and returns a value whose shape matches the schema.
C1_WalkShape ==
    (IsCompatible(schema, DepthBound)
        /\ propertyLabel \in {Undefined, MirrorLabel(schema, "Entry")}) =>
        /\ status = "failed" => PromptFailure
        /\ results # NoValue => ShapeMatches(schema, results)

\* C2: the value promptFromZod returns passes the root schema's own validation.
C2_ReturnedConforms ==
    status = "done" => safeParse(schema, returned).success

\* C3: arrayPrompt returns exactly the values its element adapter produced
\* before the cancellation, in the order produced (none when the
\* cancellation came first).
C3_CollectInOrder ==
    lastCollect # NoValue =>
        /\ lastSignal.site = "element" /\ lastSignal.how = "error" =>
              IsCancellation(lastSignal.error)
        /\ lastCollect = ArrayValue(produced)

C3_Witness ==
    /\ lastCollect # NoValue
    /\ lastSignal.site = "element"
    /\ Len(produced) = 2
    /\ produced[1] # produced[2]
    /\ failures = 0

\* C4: a failure of an element prompt that is not a cancellation propagates
\* to the caller: the session fails with it and no prompt is outstanding.
C4_FailurePropagates ==
    (/\ lastSignal.site = "element"
     /\ lastSignal.how = "error"
     /\ ~IsCancellation(lastSignal.error))
    => (status = "failed" /\ thrown = lastSignal.error /\ prompt = NoPrompt)

\* C5: with confirmation required, k answers "no" and then "yes" make
\* exactly k + 1 walks, and the session returns the values entered in the last
\* walk only.
C5_Restart ==
    doConfirm =>
        /\ walks <= declined + 1
        /\ status = "done" =>
              /\ walks = declined + 1
              /\ returned = results
              /\ Flatten(returned) = collected

C5_Witness ==
    /\ doConfirm
    /\ status = "done"
    /\ declined = 1
    /\ walks = 2
    /\ schema = "person"
    /\ Len(collected) = 4

\* C6: without confirmation there is one walk, no confirmation prompt, and
\* the collected value is returned; with confirmation one confirmation prompt
\* follows each walk, and "yes" returns that walk's value with no further walk.
C6_ConfirmationPolicy ==
    /\ ~doConfirm =>
          /\ confirms = 0
          /\ walks <= 1
          /\ status = "done" => (walks = 1 /\ returned = results /\ Flatten(returned) = collected)
    /\ doConfirm =>
          /\ (status = "waiting" /\ prompt.site \in {"field", "element"}) => confirms = walks - 1
          /\ (status = "waiting" /\ prompt.site = "confirmation") => confirms = walks
          /\ status = "done" =>
                /\ confirms = walks
                /\ lastSignal.site = "confirmation"
                /\ lastSignal.value = Value("boolean", TRUE)
                /\ returned = results
          /\ (lastSignal.site = "confirmation" /\ lastSignal.value = Value("boolean", TRUE)) =>
                status = "done"

C6_Witness ==
    /\ ~doConfirm
    /\ status = "done"
    /\ schema = "person"
    /\ walks = 1
    /\ Len(collected) = 4

\* C7: schemaValidator reports an Array node compatible if and only if its
\* element is a Boolean, String, Number or Enum node.
C7_ArrayCompatible ==
    (Checked /\ Schema(schema).kind = "ZodArray") =>
        (TruthyResult(validatorResult.result)
            <=> Schema(Schema(schema).element).kind \in CompatibleZodPrimary)

\* C8: schemaValidator reports a Record node compatible if and only if the
\* depth budget (5 by default) is positive and every field is compatible with
\* the budget less one; a nesting of six records is incompatible.
C8_DepthBound ==
    (/\ Checked
     /\ schema \in WalkRoots
     /\ Schema(schema).kind = "ZodObject"
     /\ ArraysOfPrimary(schema))
    => (TruthyResult(validatorResult.result) <=> IsCompatible(schema, DepthBound))

\* C9: on a schema the compatibility rules reject, promptFromZod fails before
\* any prompt is issued.
C9_FailFast ==
    (status # "idle" /\ ~IsCompatible(schema, DepthBound)) =>
        (status = "failed" /\ issued = 0 /\ confirms = 0)

\* C10: schemaValidator returns without throwing, and returns false for a
\* node of an unsupported kind and for a shape that contains itself.
C10_Total ==
    Checked =>
        /\ validatorResult.result.t # "throw"
        /\ (Schema(schema).kind \notin CompatibleZodPrimary \cup {"ZodArray", "ZodObject"}
            \/ schema \notin WalkRoots)
           => validatorResult.result = Value("boolean", FALSE)

\* C11: the validator of a node returns true for a value the node accepts,
\* and for a rejected value the node's issue messages in reported order,
\* joined with comma-newline; it never returns true for a rejected value.
C11_ValidatorAdapter ==
    lastValidation # NoValidation =>
        LET issues == Issues(lastValidation.schema, lastValidation.value)
            outcome == lastValidation.outcome
        IN  /\ issues = <<>> <=> outcome = Value("boolean", TRUE)
            /\ Len(issues) = 1 => outcome = Value("string", issues[1])
            /\ Len(issues) = 2 => outcome = Value("string", issues[1] \o ",\n" \o issues[2])
            /\ Len(issues) <= 2

C11_Witness ==
    /\ lastValidation # NoValidation
    /\ lastValidation.outcome = Value("string", "too small,\nnot a multiple")
    /\ status = "waiting"
    /\ prompt.fn = "number"

\* The fields of the session's record that its label spec has no entry for.
LackingFields ==
    IF Schema(schema).kind = "ZodObject" /\ propertyLabel.t = "object"
    THEN {i \in 1..Len(Schema(schema).shape) :
             \/ ~propertyLabel.items.defined
             \/ Lookup(propertyLabel.items.entries, Schema(schema).shape[i][1]) = Undefined}
    ELSE {}

\* The label a field of the session's record is being walked with: the one of
\* the call below the record's, or of the request when the field is a primitive.
LabelInUse == IF Len(stack) >= 2 THEN stack[2].propertyLabel ELSE prompt.propertyLabel

\* C12: under a record label that lacks the entry of a field (or has no
\* items at all) the walk does not fail, and the field is walked with a
\* generated label whose text is the field's name.
C12_LabelFallback ==
    LackingFields # {} =>
        /\ ~(status = "failed" /\ thrown = TypeError)
        /\ (status = "waiting" /\ prompt.site # "confirmation" /\ stack[1].i \in LackingFields)
           => /\ LabelInUse.t = "object"
              /\ LabelInUse.value = <<Schema(schema).shape[stack[1].i][1]>>

\* C13: without a label spec, a record of nesting depth up to the bound is
\* walked without failure, and each field prompt at every nesting level
\* carries a generated label whose text is the field's name.
C13_GeneratedLabels ==
    (propertyLabel = Undefined /\ Schema(schema).kind = "ZodObject"
        /\ IsCompatible(schema, DepthBound)) =>
        /\ ~(status = "failed" /\ thrown = TypeError)
        /\ (status = "waiting" /\ prompt.site = "field")
           => /\ prompt.propertyLabel.t = "object"
              /\ prompt.propertyLabel.value =
                     <<Schema(Top(Cur).schema).shape[Top(Cur).i][1]>>

\* C14: the documented call, a record of a string and a number field with
\* the flat mapping { name: "Your Name", age: "Your Age" } as label
\* argument, does not fail unless a prompt does, prompts for each field and
\* resolves to the record collected.
C14_DocumentedUsage ==
    (schema = "contact" /\ propertyLabel = DocLabel) =>
        /\ status = "failed" => PromptFailure
        /\ status = "done" =>
              /\ returned.t = "object"
              /\ Keys(returned.v) = <<"name", "age">>
              /\ Flatten(returned) = collected

\* C15: for the record { name: string, age: number, tags: array of string }
\* with labels for name and age only, a session in which the operator enters
\* a string, a number and a list of strings, cancels the array prompt and
\* confirms returns the record of these values in entry order, after
\* exactly one confirmation prompt; it fails only if a prompt fails.
C15_EndToEnd ==
    (schema = "person" /\ propertyLabel \in {PartialLabel, FlatLabel(NamedFields)}) =>
        /\ status = "failed" => PromptFailure
        /\ (status = "done" /\ doConfirm /\ declined = 0) =>
              /\ Len(collected) >= 2
              /\ returned = ObjectValue(<< <<"name", collected[1]>>, <<"age", collected[2]>>,
                                           <<"tags", ArrayValue(SubSeq(collected, 3,
                                                                       Len(collected)))>> >>)
              /\ lastSignal.site = "confirmation"
              /\ confirms = 1

\* seq has sub as a run of consecutive pieces.
Contains(seq, sub) ==
    \E k \in 0..(Len(seq) - Len(sub)) : SubSeq(seq, k + 1, k + Len(sub)) = sub

\* seq up to its last piece that is not a colon, a semicolon or white space.
WithoutTrailing(seq) ==
    LET text == {i \in 1..Len(seq) : seq[i] \notin {" ", ":", ";"}}
    IN  IF text = {} THEN <<>>
        ELSE SubSeq(seq, 1, CHOOSE i \in text : \A j \in text : j <= i)

\* seq from its first piece that is not white space, without trailing
\* separator punctuation.
Stripped(seq) ==
    LET text == {i \in 1..Len(seq) : seq[i] # " "}
    IN  IF text = {} THEN <<>>
        ELSE WithoutTrailing(SubSeq(seq, CHOOSE i \in text : \A j \in text : i <= j, Len(seq)))

\* C16: a structured label with overwriteDefault true yields the label text
\* alone, without the default kind text; one with overwriteDefault false
\* yields "<text> (<default>)"; a string label stands in place of the
\* default; without a label the default kind text is used.
C16_Precedence ==
    formatter.op = "getInputMessage" =>
        LET label == formatter.propertyLabel
            default == Stripped(formatter.defaultMessage)
            message == formatter.message
        IN  /\ (label.t = "object" /\ label.overwriteDefault) =>
                  /\ Contains(message, Stripped(label.value) \o <<":", " ">>)
                  /\ ~Contains(message, default)
            /\ (label.t = "object" /\ ~label.overwriteDefault) =>
                  Contains(message, label.value \o <<" ", "(">> \o default \o <<")", ":", " ">>)
            /\ label.t = "string" =>
                  /\ Contains(message, WithoutTrailing(label.value) \o <<":", " ">>)
                  /\ ~Contains(message, default)
            /\ label.t = "undefined" => Contains(message, default \o <<":", " ">>)

C16_Witness ==
    /\ formatter.op = "getInputMessage"
    /\ formatter.propertyLabel = ObjLabel(<<"Age", ":">>, FALSE, NoItems)
    /\ formatter.defaultMessage = <<"Enum", ":", " ">>
    /\ formatter.mandatoryMessage = Undefined
    /\ formatter.indentCount = 0
    /\ formatter.message = <<"Age", ":", " ", "(", "Enum", ")", ":", " ">>

\* The text getInputMessage resolves from the label and the default.
ResolvedText(label, defaultMessage) ==
    CASE label.t = "string" -> WithoutTrailing(label.value)
      [] label.t = "object" /\ label.overwriteDefault -> Stripped(label.value)
      [] label.t = "object" ->
            label.value \o <<" ", "(">> \o Stripped(defaultMessage) \o <<")">>
      [] OTHER -> Stripped(defaultMessage)

Indentation(depth) == [i \in 1..(3 * depth) |-> " "]

\* C17: the message is the indentation unit repeated depth times, then
\* (only if a mandatory prefix is given) the prefix without trailing
\* separator punctuation and " | ", then the resolved label-or-default text,
\* then ": "; in the announce line of an array the prefix
\* "Press Ctrl+C to Finalize" comes before the array's label.
C17_Layout ==
    LET label == formatter.propertyLabel
        given == formatter.mandatoryMessage.t = "string"
                 /\ formatter.mandatoryMessage.value # <<>>
        prefix == IF given
                  THEN Stripped(formatter.mandatoryMessage.value) \o <<" ", "|", " ">>
                  ELSE <<>>
        text == ResolvedText(label, formatter.defaultMessage)
    IN  /\ formatter.op = "getInputMessage" =>
              formatter.message =
                  Indentation(formatter.indentCount) \o prefix \o text \o <<":", " ">>
        /\ formatter.op = "announce" =>
              formatter.message =
                  <<" ", " ">> \o Indentation(formatter.indentCount) \o <<"[", " ">>
                  \o <<"Press Ctrl+C to Finalize", " ", "|", " ">> \o text \o <<":", " ">>

C17_Witness ==
    /\ formatter.op = "getInputMessage"
    /\ formatter.indentCount = 2
    /\ formatter.mandatoryMessage = StrLabel(<<" ", "Hint", ":", " ">>)
    /\ formatter.propertyLabel = StrLabel(<<"Name", ":", " ">>)
    /\ formatter.message = <<" ", " ", " ", " ", " ", " ", "Hint", " ", "|", " ",
                             "Name", ":", " ">>

\* The operator cancels the outstanding element prompt of an array.
CancelStep ==
    /\ status = "waiting"
    /\ prompt.site = "element"
    /\ \E error \in Rejections : IsCancellation(error) /\ Reject(error)

\* C18: a cancellation on an element prompt ends only that array's loop: the
\* session neither fails nor restarts, the values collected so far are kept,
\* the enclosing record stores the array under its field and goes on with
\* its next field in declaration order.
C18_CancellationScope ==
    [][CancelStep =>
        /\ status' # "failed" /\ thrown' = NoError
        /\ walks' = walks /\ declined' = declined
        /\ collected' = collected
        /\ Len(stack) = 1 => results' = ArrayValue(Top(Cur).acc)
        /\ Len(stack) >= 2 =>
              LET outer == Len(stack) - 1
                  g == stack[outer]
                  shape == Schema(g.schema).shape
              IN  g.i < Len(shape) =>
                    /\ status' = "waiting"
                    /\ prompt'.site \in {"field", "element"}
                    /\ Len(stack') >= outer
                    /\ SubSeq(stack', 1, outer - 1) = SubSeq(stack, 1, outer - 1)
                    /\ stack'[outer] =
                           [g EXCEPT !.i = g.i + 1,
                                     !.acc = Append(g.acc, <<shape[g.i][1],
                                                            ArrayValue(Top(Cur).acc)>>)]
    ]_vars

C18_Witness ==
    /\ schema = "post"
    /\ lastSignal.site = "element" /\ lastSignal.how = "error"
    /\ IsCancellation(lastSignal.error)
    /\ status = "waiting" /\ prompt.site = "field" /\ prompt.schema = "bool"
    /\ Len(stack) = 1 /\ stack[1].i = 3
    /\ Len(collected) = 3
    /\ stack[1].acc = << <<"title", collected[1]>>,
                         <<"tags", ArrayValue(SubSeq(collected, 2, 3))>> >>

\* The primitive values held by the suspended calls, outermost call first.
Held ==
    Concat([k \in 1..Len(stack) |->
               IF stack[k].fn = "ZodObject" THEN Flatten(ObjectValue(stack[k].acc))
               ELSE Flatten(ArrayValue(stack[k].acc))])

\* C19: prompts follow the schema depth-first in declaration order: a record
\* holds exactly the fields before the one being walked, in declaration
\* order; the outstanding prompt belongs to that field; an array holds the
\* elements returned so far, in order, while its next element is prompted;
\* the values collected are those held, outer record first, and the result
\* of the walk lists them in this order.
C19_PromptOrder ==
    /\ \A k \in 1..Len(stack) :
          LET f == stack[k] IN
          IF f.fn = "ZodObject"
          THEN /\ f.i \in 1..Len(Schema(f.schema).shape)
               /\ Keys(f.acc) = SubSeq(Keys(Schema(f.schema).shape), 1, f.i - 1)
               /\ k < Len(stack) => stack[k + 1].schema = Schema(f.schema).shape[f.i][2]
          ELSE /\ k = Len(stack)
               /\ f.acc = produced
               /\ status = "waiting" /\ prompt.site = "element"
               /\ prompt.schema = Schema(f.schema).element
    /\ (status = "waiting" /\ prompt.site = "field" /\ stack # <<>>) =>
          prompt.schema = Schema(Top(Cur).schema).shape[Top(Cur).i][2]
    /\ status = "waiting" /\ prompt.site # "confirmation" => collected = Held
    /\ results # NoValue => Flatten(results) = collected
    /\ (results # NoValue /\ results.t = "object") =>
          Keys(results.v) = Keys(Schema(schema).shape)

C19_Witness ==
    /\ schema = "person"
    /\ status = "waiting" /\ prompt.site = "element"
    /\ Len(stack) = 2 /\ stack[1].i = 3
    /\ Keys(stack[1].acc) = <<"name", "age">>
    /\ Len(stack[2].acc) = 1
    /\ collected = <<stack[1].acc[1][2], stack[1].acc[2][2], stack[2].acc[1]>>

\* C20: at most one terminal request awaits the operator: the session is
\* waiting exactly when one request is outstanding, and that request is the
\* one it holds; every other state of the session has none.
C20_OneOutstanding ==
    /\ outstanding \in {0, 1}
    /\ outstanding = 1 <=> status = "waiting"
    /\ outstanding = 1 <=> prompt # NoPrompt

C20_Witness ==
    /\ walks = 2 /\ declined = 1
    /\ status = "waiting" /\ outstanding = 1
    /\ prompt.site = "element"
    /\ Len(produced) = 1

\* C21: every element prompt is given the signal of a controller created
\* just before it; no controller's signal is given to two requests, in the
\* same array, another array or a later walk; field and confirmation
\* prompts are given none.
C21_FreshController ==
    /\ \A i, j \in 1..Len(signalled) : i # j => signalled[i] # signalled[j]
    /\ \A i \in 1..Len(signalled) : signalled[i] \in 1..controllers
    /\ Len(signalled) = controllers
    /\ status = "waiting" =>
          IF prompt.site = "element"
          THEN /\ prompt.signal = controllers
               /\ signalled[Len(signalled)] = prompt.signal
          ELSE prompt.signal = NoController

C21_Witness ==
    /\ walks = 2
    /\ status = "waiting" /\ prompt.site = "element"
    /\ prompt.signal = 3
    /\ signalled = <<1, 2, 3>>

\* The error schemaWalker throws for a node of a kind it does not handle.
Unsupported == Error("Error", "Unsupported schema type.")

SupportedKinds == CompatibleZodPrimary \cup {"ZodArray", "ZodObject"}

\* The walk of id comes to a node of an unsupported kind.
RECURSIVE ReachesUnsupported(_)
ReachesUnsupported(id) ==
    LET n == Schema(id) IN
    CASE n.kind \notin SupportedKinds -> TRUE
      [] n.kind = "ZodObject" ->
            \E i \in 1..Len(n.shape) : ReachesUnsupported(n.shape[i][2])
      [] OTHER -> FALSE

\* C22: a node of an unsupported kind makes the walk throw 'Unsupported
\* schema type.' as soon as it is reached: no call is ever suspended at such
\* a field, the session has failed with no prompt outstanding and none
\* issued beyond those answered, no confirmation was asked, the walk was not
\* restarted and nothing is returned.
C22_UnsupportedNode ==
    /\ thrown = Unsupported =>
          /\ status = "failed" /\ prompt = NoPrompt /\ outstanding = 0
          /\ issued = answered /\ confirms = 0 /\ walks = 1
          /\ results = NoValue /\ returned = NoValue
    /\ (status # "idle" /\ Schema(schema).kind \notin SupportedKinds) => thrown = Unsupported
    /\ \A k \in 1..Len(stack) :
          stack[k].fn = "ZodObject" =>
              Schema(Schema(stack[k].schema).shape[stack[k].i][2]).kind \in SupportedKinds
    /\ (schema \in WalkRoots /\ ReachesUnsupported(schema)) =>
          /\ status # "done" /\ results = NoValue
          /\ status = "failed" => (thrown = Unsupported \/ PromptFailure)

C22_Witness ==
    /\ schema = "mixed"
    /\ status = "failed" /\ thrown = Unsupported
    /\ answered = 1 /\ issued = 1
    /\ lastSignal.site = "field" /\ lastSignal.how = "value"

\* The error arrayPrompt throws for an element of a kind it has no adapter for.
UnsupportedElement == Error("Error", "Unsupported array element type.")

\* The lines of the console that announce an array, and those that close one.
Announces == {i \in 1..Len(console) : Contains(console[i], <<"[", " ">>)}
Closings == {i \in 1..Len(console) : console[i][Len(console[i])] = "]"}

\* The walk of id comes to an array whose element is not a primitive or enum.
RECURSIVE ReachesBadArray(_)
ReachesBadArray(id) ==
    LET n == Schema(id) IN
    CASE n.kind = "ZodArray" -> Schema(n.element).kind \notin CompatibleZodPrimary
      [] n.kind = "ZodObject" -> \E i \in 1..Len(n.shape) : ReachesBadArray(n.shape[i][2])
      [] OTHER -> FALSE

\* C23: an array whose element is not Boolean, String, Number or Enum makes
\* arrayPrompt throw 'Unsupported array element type.' before it writes the
\* announce line and before any element prompt: the array is never being
\* collected, every announced array was closed, the error is not taken for
\* a cancellation, no sequence is returned and the session fails with it.
C23_UnsupportedElement ==
    /\ thrown = UnsupportedElement =>
          /\ status = "failed" /\ prompt = NoPrompt
          /\ Cardinality(Announces) = Cardinality(Closings)
          /\ console[Len(console)] \notin {console[i] : i \in Announces}
          /\ lastSignal.how # "error"
          /\ lastCollect = NoValue /\ results = NoValue /\ returned = NoValue
    /\ \A k \in 1..Len(stack) :
          stack[k].fn = "ZodArray" =>
              Schema(Schema(stack[k].schema).element).kind \in CompatibleZodPrimary
    /\ (status # "idle" /\ Schema(schema).kind = "ZodArray" /\ ReachesBadArray(schema)) =>
          /\ thrown = UnsupportedElement
          /\ issued = 0 /\ controllers = 0 /\ Announces = {}
    /\ (schema \in WalkRoots /\ ReachesBadArray(schema)) => status # "done"

C23_Witness ==
    /\ schema = "team"
    /\ status = "failed" /\ thrown = UnsupportedElement
    /\ answered = 1 /\ controllers = 0
    /\ Len(console) = 2

\* Every String and Number leaf of value passes the validation of its node.
RECURSIVE LeavesConform(_, _)
LeavesConform(id, value) ==
    LET n == Schema(id) IN
    CASE n.kind \in {"ZodString", "ZodNumber"} -> Issues(id, value) = <<>>
      [] n.kind = "ZodArray" ->
            value.t = "array" /\ \A i \in 1..Len(value.v) : LeavesConform(n.element, value.v[i])
      [] n.kind = "ZodObject" ->
            /\ value.t = "object"
            /\ \A i \in 1..Len(n.shape) :
                  LeavesConform(n.shape[i][2], Get(value.v, n.shape[i][1]))
      [] OTHER -> TRUE

\* Every String and Number request carries the validator of its own node,
\* and the leaves collected so far pass their node's validation.
Validated ==
    /\ (status = "waiting" /\ prompt.fn \in {"input", "editor", "number"}) =>
          /\ prompt.validate
          /\ Schema(prompt.schema).kind \in {"ZodString", "ZodNumber"}
    /\ results # NoValue => LeavesConform(schema, results)
    /\ status = "done" => LeavesConform(schema, returned)
    /\ (stack # <<>> /\ Top(Cur).fn = "ZodArray") =>
          \A i \in 1..Len(produced) :
              LeavesConform(Schema(Top(Cur).schema).element, produced[i])

\* A step in which the validator returned an error text leaves the session
\* where it was.
RejectedInputStays ==
    (lastValidation' # lastValidation /\ lastValidation'.outcome.t = "string") =>
        /\ status' = status /\ prompt' = prompt /\ stack' = stack
        /\ thrown' = thrown /\ walks' = walks /\ collected' = collected
        /\ answered' = answered /\ issued' = issued

\* C24: with a primitive that keeps the request open while the validator
\* returns an error text: every String and Number request carries the
\* validator of its own node; an input the validator rejects changes nothing
\* of the session (same request, same suspended calls, no failure, no
\* restart, nothing collected); and every String and Number leaf of the
\* walk's result and of the returned value passes its node's validation.
C24_ValidationLocal == []Validated /\ [][RejectedInputStays]_vars

C24_Witness ==
    /\ schema = "ages"
    /\ status = "waiting" /\ prompt.site = "element" /\ prompt.fn = "number"
    /\ lastValidation.outcome = Value("string", "too small")
    /\ produced = <<Value("number", 36)>>

\* A prompt issued outside an array collection rejects with error.
OutsideFailure(error) ==
    /\ status = "waiting"
    /\ prompt.site \in {"field", "confirmation"}
    /\ Reject(error)

\* C25: when a field prompt or the confirmation prompt fails, with a
\* cancellation or any other error, promptFromZod rejects with that very
\* error: nothing catches it, the prompt is not issued again, no other prompt
\* is issued, the walk is not restarted and no value is returned.
C25_OutsideFailurePropagates ==
    [][\A error \in Rejections :
          OutsideFailure(error) =>
              /\ status' = "failed" /\ thrown' = error
              /\ prompt' = NoPrompt /\ outstanding' = 0 /\ stack' = <<>>
              /\ issued' = issued /\ confirms' = confirms /\ walks' = walks
              /\ returned' = NoValue /\ results' = results
    ]_vars

C25_Witness ==
    /\ schema = "post"
    /\ status = "failed" /\ thrown = AbortError
    /\ lastSignal.site = "field" /\ lastSignal.error = AbortError
    /\ Len(collected) = 2 /\ lastCollect = ArrayValue(<<collected[2]>>)
    /\ returned = NoValue

\* The number of blanks a message starts with.
RECURSIVE LeadingBlanks(_)
LeadingBlanks(message) ==
    IF message = <<>> \/ Head(message) # " " THEN 0 ELSE 1 + LeadingBlanks(Tail(message))

\* The number of records that enclose the call suspended at stack[k].
Enclosing(k) == Cardinality({j \in 1..(k - 1) : stack[j].fn = "ZodObject"})

\* C26: the depth of a node is the number of records that enclose it: each
\* suspended call holds that number (0 for the root), a field prompt is
\* indented by one unit per enclosing record, the element prompts of an
\* array at depth d by d + 1 units, and the fields after the array are
\* again at the depth of the array.
C26_DepthAccounting ==
    /\ \A k \in 1..Len(stack) : stack[k].indentCount = Enclosing(k)
    /\ (status = "waiting" /\ prompt.site = "field") =>
          /\ prompt.indentCount = Enclosing(Len(stack) + 1)
          /\ LeadingBlanks(prompt.message) = 3 * Enclosing(Len(stack) + 1)
    /\ (status = "waiting" /\ prompt.site = "element") =>
          /\ prompt.indentCount = Enclosing(Len(stack)) + 1
          /\ prompt.message = Indentation(Enclosing(Len(stack)) + 1)

C26_Witness ==
    /\ schema = "L3" /\ propertyLabel # Undefined
    /\ status = "waiting" /\ prompt.site = "field"
    /\ Len(stack) = 3 /\ prompt.indentCount = 3
    /\ LeadingBlanks(prompt.message) = 9

\* Upper-case letters of the hints in use, with their lower-case forms.
CasePairs == {<<"B", "b">>, <<"L", "l">>, <<"T", "t">>, <<"M", "m">>, <<"R", "r">>}

SameLetter(c, d) == c = d \/ <<c, d>> \in CasePairs \/ <<d, c>> \in CasePairs

\* The long-form synonyms, as words.
Synonyms == {"longtext", "textarea", "markdown", "richtext", "long", "big", "bigtext"}

\* The characters of a synonym.
Spelled(word) ==
    CASE word = "longtext" -> <<"l", "o", "n", "g", "t", "e", "x", "t">>
      [] word = "textarea" -> <<"t", "e", "x", "t", "a", "r", "e", "a">>
      [] word = "markdown" -> <<"m", "a", "r", "k", "d", "o", "w", "n">>
      [] word = "richtext" -> <<"r", "i", "c", "h", "t", "e", "x", "t">>
      [] word = "long"     -> <<"l", "o", "n", "g">>
      [] word = "big"      -> <<"b", "i", "g">>
      [] word = "bigtext"  -> <<"b", "i", "g", "t", "e", "x", "t">>

\* The node's metadata marks it long-form: its type hint is a string that
\* equals a synonym up to the case of its letters.
IsLongForm(id) ==
    LET meta == Schema(id).meta IN
    /\ meta.t = "string"
    /\ \E word \in Synonyms :
          /\ Len(Spelled(word)) = Len(meta.chars)
          /\ \A i \in 1..Len(meta.chars) : SameLetter(meta.chars[i], Spelled(word)[i])

\* C27: the request for a String node is the editor exactly when the node's
\* metadata type hint is one of the long-form synonyms up to case; otherwise
\* it is the single-line input with required = true; both carry the node's
\* validator.
C27_StringModality ==
    (status = "waiting" /\ prompt.site # "confirmation"
        /\ Schema(prompt.schema).kind = "ZodString") =>
        /\ prompt.fn \in {"editor", "input"}
        /\ prompt.fn = "editor" <=> IsLongForm(prompt.schema)
        /\ prompt.fn = "input" => prompt.required
        /\ prompt.validate

C27_Witness ==
    /\ schema = "bio"
    /\ status = "waiting" /\ prompt.fn = "editor"
    /\ prompt.validate /\ ~prompt.required

\* Every Enum leaf of value is one of its node's declared options.
RECURSIVE EnumsConform(_, _)
EnumsConform(id, value) ==
    LET n == Schema(id) IN
    CASE n.kind = "ZodEnum" ->
            value.t = "string" /\ \E i \in 1..Len(n.options) : n.options[i] = value.v
      [] n.kind = "ZodArray" ->
            value.t = "array" /\ \A i \in 1..Len(value.v) : EnumsConform(n.element, value.v[i])
      [] n.kind = "ZodObject" ->
            /\ value.t = "object"
            /\ \A i \in 1..Len(n.shape) :
                  EnumsConform(n.shape[i][2], Get(value.v, n.shape[i][1]))
      [] OTHER -> TRUE

\* C28: the request for an Enum node is the choice request whose choices are
\* the node's declared options in declared order, each with itself as name
\* and as value; every Enum value of a walk's result and of the returned
\* value, array elements included, is one of its node's options.
C28_EnumChoices ==
    /\ (status = "waiting" /\ prompt.site # "confirmation"
           /\ Schema(prompt.schema).kind = "ZodEnum") =>
          LET options == Schema(prompt.schema).options IN
          /\ prompt.fn = "select"
          /\ Len(prompt.choices) = Len(options)
          /\ \A i \in 1..Len(options) :
                prompt.choices[i] = [name |-> options[i], value |-> options[i]]
    /\ (status = "waiting" /\ prompt.fn = "select") =>
          Schema(prompt.schema).kind = "ZodEnum"
    /\ results # NoValue => EnumsConform(schema, results)
    /\ status = "done" => EnumsConform(schema, returned)

C28_Witness ==
    /\ schema = "colors"
    /\ status = "done"
    /\ returned = ArrayValue(<<Value("string", "green"), Value("string", "red")>>)

\* C29: no step of a session (walk, array collection, generated default
\* labels, failure, restart) changes the label spec the caller passed.
C29_LabelReadOnly == [][propertyLabel' = propertyLabel]_vars

C29_Witness ==
    /\ schema = "person" /\ propertyLabel = PartialLabel
    /\ walks = 2 /\ status = "done"
    /\ Len(collected) = 3

\* schemaValidator accepts the session's schema.
Accepted == TruthyResult(schemaValidator(schema, TRUE))

\* C30: a schema schemaValidator accepts is walked without 'Unsupported
\* schema type.' and without 'Unsupported array element type.'; and a
\* schema whose walk meets no node or array element of an unsupported kind
\* (in particular one whose session returned) is accepted by schemaValidator.
C30_SingleGate ==
    schema \in WalkRoots =>
        /\ Accepted => thrown \notin {Unsupported, UnsupportedElement}
        /\ (~ReachesUnsupported(schema) /\ ~ReachesBadArray(schema)) => Accepted
        /\ status = "done" => Accepted

---------------------------------------------------------------------------
(* The two modes of schemaValidator *)

\* The check of id returns false: id is of an unsupported kind, or an array
\* of such an element, or a record with such a field (looked for hops deep).
RECURSIVE Failing(_, _)
Failing(id, hops) ==
    LET n == Schema(id) IN
    CASE n.kind \notin SupportedKinds -> TRUE
      [] n.kind = "ZodArray" -> hops > 0 /\ Failing(n.element, hops - 1)
      [] n.kind = "ZodObject" ->
            hops > 0 /\ \E i \in 1..Len(n.shape) : Failing(n.shape[i][2], hops - 1)
      [] OTHER -> FALSE

\* What the call made returned or threw, and what the other mode does.
BoolMode ==
    IF validatorResult.boolReturn THEN validatorResult.result
    ELSE schemaValidator(schema, TRUE)
ValueMode ==
    IF validatorResult.boolReturn THEN schemaValidator(schema, FALSE)
    ELSE validatorResult.result

\* C31: the boolean mode returns true if and only if the value-returning
\* mode returns a result other than false; for a compatible node the
\* value-returning mode returns the very node passed in; a Record with a
\* failing field makes both modes return false.
C31_ModesAgree ==
    Checked =>
        /\ (BoolMode = Value("boolean", TRUE))
              <=> (ValueMode.t # "throw" /\ ValueMode # Value("boolean", FALSE))
        /\ (schema \in WalkRoots /\ IsCompatible(schema, DepthBound))
              => ValueMode = Value("schema", schema)
        /\ (Schema(schema).kind = "ZodObject" /\ Failing(schema, 2))
              => (BoolMode = Value("boolean", FALSE) /\ ValueMode = Value("boolean", FALSE))

---------------------------------------------------------------------------
(* Termination.  The operator of this specification attends the session:  *)
(* a field or confirmation prompt is never aborted, only answered; an     *)
(* element prompt is answered, fails, or is cancelled.                    *)

\* The operator answers the outstanding field prompt.
FieldAnswer ==
    /\ status = "waiting"
    /\ prompt.site = "field"
    /\ \E v \in Inputs : Answer(v)

\* The operator answers the outstanding element prompt.
ElementAnswer ==
    /\ status = "waiting"
    /\ prompt.site = "element"
    /\ \E v \in Inputs : Answer(v)

\* The outstanding element prompt fails: a cancellation or another error.
ElementReject ==
    /\ status = "waiting"
    /\ prompt.site = "element"
    /\ \E e \in Rejections : Reject(e)

\* The operator answers the confirmation with yes.
ConfirmYes == Confirm(Value("boolean", TRUE))

AttendedNext ==
    \/ Call
    \/ FieldAnswer
    \/ ElementAnswer
    \/ \E v \in Inputs : Retype(v)
    \/ \E v \in {Value("boolean", b) : b \in BOOLEAN} : Confirm(v)
    \/ ElementReject

\* A field prompt is outstanding (FieldAnswer is enabled); an element
\* prompt is outstanding (CancelStep is enabled).
AtField == status = "waiting" /\ prompt.site = "field"
AtElement == status = "waiting" /\ prompt.site = "element"

\* The operator eventually answers every outstanding prompt, eventually
\* cancels every array collection and eventually confirms with yes: weak
\* fairness of FieldAnswer and of CancelStep, with their enabling conditions
\* AtField and AtElement written out, and strong fairness of ConfirmYes (a
\* declined confirmation is asked again only after the walk is redone).
AttendedSpec ==
    /\ Init
    /\ [][AttendedNext]_vars
    /\ ([]<>~AtField \/ []<><<FieldAnswer>>_vars)
    /\ ([]<>~AtElement \/ []<><<CancelStep>>_vars)
    /\ SF_vars(ConfirmYes)

\* An element loop is left (the call suspended in arrayPrompt is gone, or
\* the session is over) by the step taken.
LeavesLoop ==
    /\ status = "waiting"
    /\ prompt.site = "element"
    /\ \/ status' # "waiting"
       \/ Len(stack') < Len(stack)
       \/ prompt'.site # "element"

\* A session that was called and has not returned waits on one prompt.
OnePromptUntilReturn ==
    (status \notin {"idle", "done"}) => (status = "waiting" /\ outstanding = 1)

\* C32: an element loop is left only by a cancellation, however many
\* elements it holds; with an operator who eventually answers every prompt,
\* cancels every array collection and confirms with yes, every session on a
\* compatible schema (labels of the declared type or none) eventually
\* returns, and until then exactly one prompt is outstanding.
C32_OperatorDriven ==
    /\ [][LeavesLoop => CancelStep]_vars
    /\ []((IsCompatible(schema, DepthBound)
              /\ propertyLabel \in {Undefined, MirrorLabel(schema, "Entry")})
            => OnePromptUntilReturn)
    /\ ((status # "idle" /\ IsCompatible(schema, DepthBound)
           /\ propertyLabel \in {Undefined, MirrorLabel(schema, "Entry")})
         ~> (status = "done"))

---------------------------------------------------------------------------
(* Progress markers *)

\* What a console line is: its first piece after the leading blanks (the
\* banner, "{", "}", "[" or "]").
Marker(line) == line[LeadingBlanks(line) + 1]

Closer(opener) == IF opener = "{" THEN "}" ELSE "]"

Unbalanced == << <<"unbalanced", 0>> >>

\* The markers of lines still open after lines are read with open pending,
\* outermost first, each with its indentation; Unbalanced when a closing
\* does not match the innermost opening in kind and indentation, or a
\* banner comes between an opening and its closing.
RECURSIVE Pending(_, _)
Pending(lines, open) ==
    IF lines = <<>> \/ open = Unbalanced THEN open
    ELSE LET line == Head(lines)
             mark == <<Marker(line), LeadingBlanks(line)>>
         IN  CASE line = Banner ->
                    Pending(Tail(lines), IF open = <<>> THEN <<>> ELSE Unbalanced)
               [] mark[1] \in {"{", "["} -> Pending(Tail(lines), Append(open, mark))
               [] mark[1] \in {"}", "]"} ->
                    Pending(Tail(lines),
                            IF open # <<>>
                               /\ mark = <<Closer(open[Len(open)][1]), open[Len(open)][2]>>
                            THEN SubSeq(open, 1, Len(open) - 1)
                            ELSE Unbalanced)
               [] OTHER -> Unbalanced

\* The opening each suspended call wrote, outermost call first.
Entered ==
    [k \in 1..Len(stack) |->
        <<IF stack[k].fn = "ZodObject" THEN "{" ELSE "[", 2 + 3 * stack[k].indentCount>>]

Banners == {i \in 1..Len(console) : console[i] = Banner}

\* The markers written so far are those of the walk's position.
MarkersNested ==
    /\ (status = "waiting" /\ prompt.site \in {"field", "element"}) =>
          /\ console # <<>> /\ console[1] = Banner
          /\ Cardinality(Banners) = 2 * walks - 1
          /\ Pending(console, <<>>) = Entered
    /\ ((status = "waiting" /\ prompt.site = "confirmation") \/ status = "done") =>
          /\ Cardinality(Banners) = 2 * walks
          /\ console[Len(console)] = Banner
          /\ Pending(console, <<>>) = <<>>
          /\ Cardinality(Announces) = Cardinality(Closings)
    /\ status = "done" =>
          /\ Flatten(returned) = collected
          /\ \A i \in 1..Len(collected) : collected[i] \in Inputs

\* A closing bracket is written by the cancellation of an element prompt,
\* one per cancellation, and by no other step.
BracketOnCancel ==
    /\ CancelStep => Cardinality(Closings') = Cardinality(Closings) + 1
    /\ ~CancelStep => Closings' = Closings

\* C33: while a prompt of the walk is outstanding the start banner of the
\* attempt has been written and its end banner has not; the openings written
\* and not yet closed are exactly those of the records and arrays being
\* walked, outermost first (a record's brace line before any prompt of its
\* fields, an array's announce line once before its element prompts), each
\* closed later at the indentation it was opened with, an array's by the
\* cancellation; when the walk is complete (confirmation asked, or value
\* returned) the end banner is written and openings and closings are
\* balanced; the returned value holds the answers of the walk and no marker.
C33_Markers == []MarkersNested /\ [][BracketOnCancel]_vars

C33_Witness ==
    /\ schema = "post"
    /\ status = "done"
    /\ walks = 2
    /\ Len(console) = 12
    /\ Cardinality(Announces) = 2 /\ Cardinality(Closings) = 2
    /\ Flatten(returned) = collected /\ Len(collected) = 3

===========================================================================
